---- MODULE Spec2Model ----
(***************************************************************************)
(* Model of service-worker.js (CEA Roster Calendar service worker).         *)
(*                                                                         *)
(* One script, deployed in successive versions that differ only in          *)
(* CACHE_NAME.  A worker of version v runs the three handlers of the        *)
(* script (install, activate, fetch) against the origin's CacheStorage,     *)
(* which all versions share.  Every asynchronous operation of the script   *)
(* (caches.open, cache.addAll, caches.keys, caches.delete, caches.match,    *)
(* fetch, cache.put) is a suspension point: the operation is requested by   *)
(* one action and resolves or rejects in a later one, and a promise         *)
(* reaction (.then / .catch callback) runs in the action that settles the   *)
(* promise it is attached to.                                               *)
(***************************************************************************)
EXTENDS Naturals, Sequences, FiniteSets

\* Number of deployed versions of the script (each has its own CACHE_NAME).
MaxVersion == 2
\* Number of fetch events dispatched in a run.
MaxFetch == 2

Versions == 1..MaxVersion
Handlings == 1..MaxFetch

\* const CACHE_NAME = 'cea-roster-v<version>': the store name of version v.
CACHE_NAME(v) == v

\* The asset manifest (paths are numbered) and one URL outside of it.
ASSETS_TO_CACHE == {1, 2}
OtherUrl == 3
Urls == ASSETS_TO_CACHE \cup {OtherUrl}
Methods == {"GET", "POST"}

\* Responses.  NoEntry: no cached response (caches.match gives undefined).
Response(s, t, b) == [status |-> s, type |-> t, body |-> b]
NoEntry == Response(0, "none", 0)
Undefined == Response(0, "undefined", 0)
Null == Response(0, "null", 0)
Ok(b) == Response(200, "basic", b)
NotFound(b) == Response(404, "basic", b)
CrossOrigin(b) == Response(200, "cors", b)

\* Every response the network serves is an object of its own: the body of a
\* response names the fetch that obtained it (the install of version v, or
\* the handling h of a fetch event).
InstallBody(v) == MaxFetch + v
FetchBody(h) == h
\* What fetch(event.request) can resolve with for handling h.
NetResponses(h) ==
    {Ok(FetchBody(h)), NotFound(FetchBody(h)), CrossOrigin(FetchBody(h)), Null}

EmptyStore == [u \in Urls |-> NoEntry]
Range(s) == {s[i] : i \in 1..Len(s)}

VARIABLES
    cacheNames,  \* CacheStorage: the names of the existing stores, in creation order
    entries,     \* entries[n][u]: the response store n holds for URL u, or NoEntry
    wstate,      \* wstate[v]: lifecycle state of the worker of version v
    inst,        \* inst[v]: the install handler's promise chain of version v
    act,         \* act[v]: the activate handler's promise chain of version v
    fh,          \* fh[h]: the h-th fetch event and the handler's work for it
    log          \* console output

vars == <<cacheNames, entries, wstate, inst, act, fh, log>>

IdleInstall == [pc |-> "idle", orph |-> FALSE, net |-> EmptyStore, skip |-> FALSE,
                err |-> FALSE]
IdleActivate == [pc |-> "idle", requested |-> {}, pending |-> {}, claimed |-> FALSE]
IdleFetch == [w |-> 0, method |-> "GET", url |-> OtherUrl, pc |-> "idle",
              outcome |-> "none", resp |-> NoEntry, src |-> "none",
              looked |-> FALSE, net |-> FALSE, served |-> NoEntry,
              neterr |-> FALSE, bg |-> "none", orph |-> FALSE]

Init ==
    /\ cacheNames = <<>>
    /\ entries = [n \in Versions |-> EmptyStore]
    /\ wstate = [v \in Versions |-> "parsed"]
    /\ inst = [v \in Versions |-> IdleInstall]
    /\ act = [v \in Versions |-> IdleActivate]
    /\ fh = [h \in Handlings |-> IdleFetch]
    /\ log = {}


(***************************************************************************)
(* The platform's CacheStorage, as the script uses it.                      *)
(***************************************************************************)
Exists(n) == n \in Range(cacheNames)

\* caches.open(name): the store is created, last in creation order, if absent.
OpenStore(n) == IF Exists(n) THEN cacheNames ELSE Append(cacheNames, n)

\* caches.delete(name): the name is unbound; the store's entries go with it.
DeleteNames(n) == SelectSeq(cacheNames, LAMBDA m : m # n)
DeleteEntries(n) == [entries EXCEPT ![n] = EmptyStore]

\* A Cache object obtained before its store was deleted stays usable, but is
\* no longer the store of that name: writes through it are not visible, and
\* what was written through it is gone from the store of that name.
DetachInstall(n) ==
    [v \in Versions |->
        IF CACHE_NAME(v) = n /\ inst[v].pc \in {"fetch", "put"}
        THEN [inst[v] EXCEPT !.orph = TRUE] ELSE inst[v]]
DetachFetch(n) ==
    [h \in Handlings |->
        IF fh[h].bg \in {"put", "written"} /\ CACHE_NAME(fh[h].w) = n
        THEN [fh[h] EXCEPT !.orph = TRUE] ELSE fh[h]]

\* Mutant: only the entries of the manifest are looked up.
CachesMatch_ManifestOnly(u) ==
    LET hits == SelectSeq(cacheNames, LAMBDA n : entries[n][u] # NoEntry)
    IN  IF hits = <<>> \/ u \notin ASSETS_TO_CACHE
        THEN NoEntry ELSE entries[Head(hits)][u]

\* caches.match(request): the first store, in creation order, that holds an
\* entry for the request answers; none: undefined.
CachesMatch(u) ==
    LET hits == SelectSeq(cacheNames, LAMBDA n : entries[n][u] # NoEntry)
    IN  IF hits = <<>> THEN NoEntry ELSE entries[Head(hits)][u]

(***************************************************************************)
(* The registration's workers.                                              *)
(***************************************************************************)
IsActive(v) == wstate[v] \in {"activating", "activated"}
\* The active worker has no event with a pending waitUntil / respondWith promise.
NoPendingEvents ==
    \A a \in Versions :
        IsActive(a) =>
            /\ wstate[a] = "activated"
            /\ \A h \in Handlings : fh[h].w = a => fh[h].pc \in {"idle", "done"}

(***************************************************************************)
(* INSTALL                                                                  *)
(***************************************************************************)
\* Mutant: the catch handler logs and does not re-throw, so the promise given
\* to waitUntil resolves and the install succeeds.
InstallCatch_Swallow(v) ==
    /\ inst' = [inst EXCEPT ![v].pc = "resolved", ![v].net = EmptyStore,
                           ![v].err = TRUE]
    /\ log' = log \cup {<<"error", v>>}
    /\ wstate' = [u \in Versions |->
                    IF u = v THEN "installed"
                    ELSE IF wstate[u] = "installed" THEN "redundant"
                    ELSE wstate[u]]

\* .catch(err => { console.error(...); throw err; }): the promise given to
\* waitUntil rejects, the install fails and the worker is discarded.
InstallCatch(v) ==
    /\ inst' = [inst EXCEPT ![v].pc = "rejected", ![v].net = EmptyStore,
                           ![v].err = TRUE]
    /\ log' = log \cup {<<"error", v>>}
    /\ wstate' = [wstate EXCEPT ![v] = "redundant"]

\* .then(() => self.skipWaiting()): the chain resolves, the install succeeds
\* and the worker becomes the waiting worker (replacing an earlier one).
InstallSkipWaiting(v) ==
    /\ inst' = [inst EXCEPT ![v].pc = "resolved", ![v].skip = TRUE,
                           ![v].net = EmptyStore]
    /\ wstate' = [u \in Versions |->
                    IF u = v THEN "installed"
                    ELSE IF wstate[u] = "installed" THEN "redundant"
                    ELSE wstate[u]]
    /\ UNCHANGED log

\* The install event is dispatched to a new version of the script:
\* event.waitUntil(caches.open(CACHE_NAME) ...).
InstallEvent(v) ==
    /\ wstate[v] = "parsed"
    /\ \A u \in Versions : (u < v) = (wstate[u] # "parsed")
    /\ \A u \in Versions : wstate[u] # "installing"
    /\ wstate' = [wstate EXCEPT ![v] = "installing"]
    /\ inst' = [inst EXCEPT ![v].pc = "open"]
    /\ UNCHANGED <<cacheNames, entries, act, fh, log>>

\* caches.open(CACHE_NAME) settles; on success cache.addAll(ASSETS_TO_CACHE) is called.
InstallOpened(v) ==
    /\ inst[v].pc = "open"
    /\ \/ /\ cacheNames' = OpenStore(CACHE_NAME(v))
          /\ inst' = [inst EXCEPT ![v].pc = "fetch", ![v].orph = FALSE]
          /\ UNCHANGED <<entries, wstate, act, fh, log>>
       \/ /\ InstallCatch(v)
          /\ UNCHANGED <<cacheNames, entries, act, fh>>

\* cache.addAll: every manifest entry is fetched; a failed fetch or a response
\* that is not ok rejects addAll before anything is stored.
InstallFetched(v) ==
    /\ inst[v].pc = "fetch"
    /\ \/ /\ inst' = [inst EXCEPT ![v].pc = "put",
                           ![v].net = [u \in Urls |->
                               IF u \in ASSETS_TO_CACHE
                               THEN Ok(InstallBody(v)) ELSE NoEntry]]
          /\ UNCHANGED <<cacheNames, entries, wstate, act, fh, log>>
       \/ /\ InstallCatch(v)
          /\ UNCHANGED <<cacheNames, entries, act, fh>>

\* Mutant: the batch is stored in every existing store.
AddAllEntries_EveryStore(v) ==
    [n \in Versions |->
        IF Exists(n)
        THEN [u \in Urls |-> IF u \in ASSETS_TO_CACHE THEN inst[v].net[u]
                                                      ELSE entries[n][u]]
        ELSE entries[n]]

\* What addAll stores in the cache it was called on: all fetched responses at once.
AddAllEntries(v) ==
    IF inst[v].orph THEN entries
    ELSE [entries EXCEPT ![CACHE_NAME(v)] =
            [u \in Urls |-> IF u \in ASSETS_TO_CACHE THEN inst[v].net[u] ELSE @[u]]]

\* cache.addAll settles: the batch is stored and skipWaiting() is called, or
\* storing fails and the catch handler runs.
InstallStored(v) ==
    /\ inst[v].pc = "put"
    /\ \/ /\ entries' = AddAllEntries(v)
          /\ InstallSkipWaiting(v)
          /\ UNCHANGED <<cacheNames, act, fh>>
       \/ /\ InstallCatch(v)
          /\ UNCHANGED <<cacheNames, entries, act, fh>>

(***************************************************************************)
(* ACTIVATE                                                                 *)
(***************************************************************************)
\* Mutant: the filter is missing, every enumerated store is deleted.
StaleNames_Unfiltered(v, names) == Range(names)

\* cacheNames.filter(name => name !== CACHE_NAME)
StaleNames(v, names) == {n \in Range(names) : n # CACHE_NAME(v)}

\* The platform activates the waiting worker once the active worker, if any,
\* has no pending events; the worker it replaces becomes redundant.
\* event.waitUntil(caches.keys() ...).
ActivateEvent(v) ==
    /\ wstate[v] = "installed"
    /\ NoPendingEvents
    /\ wstate' = [u \in Versions |->
                    IF u = v THEN "activating"
                    ELSE IF IsActive(u) THEN "redundant"
                    ELSE wstate[u]]
    /\ act' = [act EXCEPT ![v].pc = "keys"]
    /\ UNCHANGED <<cacheNames, entries, inst, fh, log>>

\* Mutant: the map callback does not return the promise of caches.delete, so
\* Promise.all resolves without waiting for the deletions.
AllResolved_NotAwaited(a) == TRUE

\* Promise.all(...) resolves when every caches.delete it was given has resolved.
AllResolved(a) == a.pending = {}

\* .then(() => self.clients.claim()): Promise.all has resolved; the promise
\* given to waitUntil resolves and the worker is activated.
ActivateClaim(v, a) == [a EXCEPT !.pc = "resolved", !.claimed = TRUE]

\* caches.keys() resolves: caches.delete is requested for every stale name
\* (each logged); with none, Promise.all([]) resolves at once.
ActivateKeys(v) ==
    /\ act[v].pc = "keys"
    /\ LET stale == StaleNames(v, cacheNames)
           a == [act[v] EXCEPT !.requested = stale, !.pending = stale, !.pc = "deleting"]
       IN  /\ log' = log \cup {<<"log", v, n>> : n \in stale}
           /\ IF AllResolved(a)
              THEN /\ act' = [act EXCEPT ![v] = ActivateClaim(v, a)]
                   /\ wstate' = [wstate EXCEPT ![v] = "activated"]
              ELSE /\ act' = [act EXCEPT ![v] = a]
                   /\ UNCHANGED wstate
    /\ UNCHANGED <<cacheNames, entries, inst, fh>>

\* One caches.delete(name) settles.  Resolved: the store is gone; when it was
\* the last one pending, Promise.all resolves.  Rejected: Promise.all rejects
\* at once, so does the promise given to waitUntil, and clients.claim() is
\* not called; the deletions still pending run on.
ActivateDeleted(v, n) ==
    /\ n \in act[v].pending
    /\ LET a == [act[v] EXCEPT !.pending = @ \ {n}]
       IN  \/ /\ cacheNames' = DeleteNames(n)
              /\ entries' = DeleteEntries(n)
              /\ inst' = DetachInstall(n)
              /\ fh' = DetachFetch(n)
              /\ IF a.pc = "deleting" /\ AllResolved(a)
                 THEN /\ act' = [act EXCEPT ![v] = ActivateClaim(v, a)]
                      /\ wstate' = [wstate EXCEPT ![v] = "activated"]
                 ELSE /\ act' = [act EXCEPT ![v] = a]
                      /\ UNCHANGED wstate
              /\ UNCHANGED log
           \/ /\ IF a.pc = "deleting"
                 THEN /\ act' = [act EXCEPT ![v] = [a EXCEPT !.pc = "rejected"]]
                      /\ wstate' = [wstate EXCEPT ![v] = "activated"]
                 ELSE /\ act' = [act EXCEPT ![v] = a]
                      /\ UNCHANGED wstate
              /\ UNCHANGED <<cacheNames, entries, inst, fh, log>>

(***************************************************************************)
(* FETCH                                                                    *)
(***************************************************************************)
\* Mutant: every method is handled like a GET.
IsGet_AnyMethod(m) == m \in Methods

\* event.request.method !== 'GET' is false
IsGet(m) == m = "GET"

\* Mutant: the status is not tested.
ShouldCache_AnyStatus(r) == ~(r = Null \/ r.type # "basic")

\* The negation of the test
\*   !networkResponse || networkResponse.status !== 200 || networkResponse.type !== 'basic'
ShouldCache(r) == ~(r = Null \/ r.status # 200 \/ r.type # "basic")

\* A fetch event is dispatched to the active, activated worker.  A request
\* that is not a GET: the handler returns without respondWith.  A GET:
\* event.respondWith(caches.match(event.request) ...).
FetchEvent(h, m, u) ==
    /\ fh[h].pc = "idle"
    /\ \A g \in Handlings : g < h => fh[g].pc # "idle"
    /\ \E a \in Versions :
          /\ wstate[a] = "activated"
          /\ fh' = [fh EXCEPT ![h] =
                IF IsGet(m)
                THEN [@ EXCEPT !.w = a, !.method = m, !.url = u,
                               !.pc = "match", !.looked = TRUE]
                ELSE [@ EXCEPT !.w = a, !.method = m, !.url = u,
                               !.pc = "done", !.outcome = "unhandled"]]
    /\ UNCHANGED <<cacheNames, entries, wstate, inst, act, log>>

\* Mutant: a hit is returned, and the network is asked as well (revalidation).
FetchHit_Revalidate(f, cachedResponse) ==
    [f EXCEPT !.pc = "done", !.outcome = "resolved",
              !.resp = cachedResponse, !.src = "cache", !.net = TRUE]

\* if (cachedResponse) return cachedResponse;
FetchHit(f, cachedResponse) ==
    [f EXCEPT !.pc = "done", !.outcome = "resolved",
              !.resp = cachedResponse, !.src = "cache"]

\* return fetch(event.request) ...
FetchMiss(f) == [f EXCEPT !.pc = "fetch", !.net = TRUE]

\* caches.match resolves.  A hit is returned; a miss calls fetch(event.request).
FetchMatched(h) ==
    /\ fh[h].pc = "match"
    /\ LET cachedResponse == CachesMatch(fh[h].url)
       IN  fh' = [fh EXCEPT ![h] =
                IF cachedResponse # NoEntry
                THEN FetchHit(@, cachedResponse)
                ELSE FetchMiss(@)]
    /\ UNCHANGED <<cacheNames, entries, wstate, inst, act, log>>

\* Mutant: the cache write is awaited before the response is returned
\* (return caches.open(CACHE_NAME).then(...).then(() => networkResponse)).
FetchThen_AwaitWrite(f, networkResponse) ==
    IF ~ShouldCache(networkResponse)
    THEN [f EXCEPT !.pc = "done", !.outcome = "resolved",
                   !.resp = networkResponse, !.src = "network"]
    ELSE [f EXCEPT !.pc = "write", !.src = "network", !.bg = "open"]

\* The handling after fetch() resolved with networkResponse: a response that
\* is not to be cached is returned; otherwise caches.open(CACHE_NAME) is
\* called for the clone, not awaited, and networkResponse is returned.
FetchThen(f, networkResponse) ==
    IF ~ShouldCache(networkResponse)
    THEN [f EXCEPT !.pc = "done", !.outcome = "resolved",
                   !.resp = networkResponse, !.src = "network"]
    ELSE [f EXCEPT !.pc = "done", !.outcome = "resolved",
                   !.resp = networkResponse, !.src = "network", !.bg = "open"]

\* Mutant: the catch handler re-throws, so the promise given to respondWith rejects.
FetchCatch_Rethrow(f) ==
    [f EXCEPT !.pc = "done", !.outcome = "rejected", !.src = "network"]

\* .catch(() => { console.warn(...); }): resolves with undefined.
FetchCatch(f) ==
    [f EXCEPT !.pc = "done", !.outcome = "resolved", !.resp = Undefined,
              !.src = "network"]

\* fetch(event.request) settles.
FetchSettled(h) ==
    /\ fh[h].pc = "fetch"
    /\ \/ /\ \E r \in NetResponses(h) :
                fh' = [fh EXCEPT ![h] = FetchThen([@ EXCEPT !.served = r], r)]
          /\ UNCHANGED log
       \/ /\ fh' = [fh EXCEPT ![h] = FetchCatch([@ EXCEPT !.neterr = TRUE])]
          /\ log' = log \cup {<<"warn", h>>}
    /\ UNCHANGED <<cacheNames, entries, wstate, inst, act>>

\* The detached caches.open(CACHE_NAME) settles; resolved, it creates the
\* store if absent and cache.put(event.request, responseToCache) is called.
\* Rejected, nothing follows (the chain has no catch).
FetchCacheOpened(h) ==
    /\ fh[h].bg = "open"
    /\ \/ /\ cacheNames' = OpenStore(CACHE_NAME(fh[h].w))
          /\ fh' = [fh EXCEPT ![h].bg = "put", ![h].orph = FALSE]
       \/ /\ fh' = [fh EXCEPT ![h].bg = "failed"]
          /\ UNCHANGED cacheNames
    /\ UNCHANGED <<entries, wstate, inst, act, log>>

\* Mutant: the response is put into the oldest existing store instead of the
\* one opened under CACHE_NAME.
PutEntries_OldestStore(f) ==
    IF cacheNames = <<>> THEN entries
    ELSE [entries EXCEPT ![Head(cacheNames)][f.url] = f.resp]

\* Mutant: cache.put resolves without storing anything.
PutEntries_Discard(f) == entries

\* What cache.put stores in the cache it was called on.
PutEntries(f) ==
    IF f.orph THEN entries
    ELSE [entries EXCEPT ![CACHE_NAME(f.w)][f.url] = f.resp]

\* The detached cache.put settles.
FetchCachePut(h) ==
    /\ fh[h].bg = "put"
    /\ \/ /\ entries' = PutEntries(fh[h])
          /\ fh' = [fh EXCEPT ![h].bg = "written"]
       \/ /\ fh' = [fh EXCEPT ![h].bg = "failed"]
          /\ UNCHANGED entries
    /\ UNCHANGED <<cacheNames, wstate, inst, act, log>>

Next ==
    \/ \E v \in Versions : InstallEvent(v)
    \/ \E v \in Versions : InstallOpened(v)
    \/ \E v \in Versions : InstallFetched(v)
    \/ \E v \in Versions : InstallStored(v)
    \/ \E v \in Versions : ActivateEvent(v)
    \/ \E v \in Versions : ActivateKeys(v)
    \/ \E v \in Versions, n \in Versions : ActivateDeleted(v, n)
    \/ \E h \in Handlings, m \in Methods, u \in Urls : FetchEvent(h, m, u)
    \/ \E h \in Handlings : FetchMatched(h)
    \/ \E h \in Handlings : FetchSettled(h)
    \/ \E h \in Handlings : FetchCacheOpened(h)
    \/ \E h \in Handlings : FetchCachePut(h)

Spec == Init /\ [][Next]_vars

\* The platform settles every cache operation it was asked for: a detached
\* caches.open or cache.put that is pending eventually resolves or rejects.
FairSpec ==
    /\ Spec
    /\ \A h \in Handlings :
          WF_vars(FetchCacheOpened(h)) /\ WF_vars(FetchCachePut(h))


(***************************************************************************)
(* Properties.                                                              *)
(***************************************************************************)
\* The step in which the activate handler of version v completes: the
\* deletions it awaited have resolved and clients.claim() has been called.
ActivateCompletes(v) == act[v].pc \in {"keys", "deleting"} /\ act'[v].pc = "resolved"

\* C1 (version isolation): when the activate handler of the worker of version
\* V completes, exactly one named cache store exists and its name is V's
\* CACHE_NAME; hence every store that existed before and has another name is absent.
C1_VersionIsolation ==
    [][\A v \in Versions :
          ActivateCompletes(v) => cacheNames' = <<CACHE_NAME(v)>>]_vars


\* The step in which caches.match resolves for handling h.
LookupResolves(h) == fh[h].pc = "match" /\ fh'[h].pc # "match"
\* Some existing store holds an entry for URL u.
CachedSomewhere(u) == \E n \in Range(cacheNames) : entries[n][u] # NoEntry

\* C2 (cache-first ordering): a GET request with a matching cached entry at
\* lookup time is answered with a cached response for its URL, and no network
\* request is issued for it, then or later.
C2_CacheFirst ==
    /\ [][\A h \in Handlings :
            LookupResolves(h) /\ CachedSomewhere(fh[h].url) =>
                /\ fh'[h].outcome = "resolved"
                /\ fh'[h].src = "cache"
                /\ \E n \in Range(cacheNames) :
                      /\ entries[n][fh[h].url] # NoEntry
                      /\ fh'[h].resp = entries[n][fh[h].url]
                /\ ~fh'[h].net]_vars
    /\ [](\A h \in Handlings : fh[h].src = "cache" => ~fh[h].net /\ fh[h].pc = "done")

\* A handling answered from the cache that issued no network request.
C2_Witness ==
    \E h \in Handlings :
        /\ fh[h].src = "cache" /\ fh[h].outcome = "resolved"
        /\ fh[h].resp.status = 200 /\ ~fh[h].net


\* The network answered handling h with a response the handler must not
\* cache: missing, of a status other than 200, or of a type other than "basic".
NotCacheable(r) == r = Null \/ r.status # 200 \/ r.type # "basic"
MissNotCacheable(f) == f.served # NoEntry /\ NotCacheable(f.served)
\* The step is a cache.put of handling h that stores into a named store.
PutStep(h) == fh[h].bg = "put" /\ fh'[h].bg = "written"

\* Some store holds an entry that handling h obtained from the network.
HoldsEntryOf(h) ==
    \E n \in Versions, u \in Urls : entries[n][u].body = FetchBody(h)

\* C3 (no caching of non-200 or cross-origin responses): on a GET cache miss
\* answered by the network with a missing, non-200 or non-"basic" response,
\* that response is what the caller gets, the handling starts no cache write,
\* and no store ever holds an entry written by this handling.
C3_NoCachingOfBadResponses ==
    \A h \in Handlings :
        MissNotCacheable(fh[h]) =>
            /\ fh[h].outcome = "resolved"
            /\ fh[h].resp = fh[h].served
            /\ fh[h].bg = "none"
            /\ ~HoldsEntryOf(h)

\* Handlings that got a 404, a cross-origin and a missing response, all
\* finished, with some store in existence.
C3_Witness ==
    /\ cacheNames # <<>>
    /\ \E h \in Handlings :
          /\ fh[h].pc = "done" /\ fh[h].served.status = 404
          /\ fh[h].resp = fh[h].served
    /\ \E h \in Handlings :
          /\ fh[h].pc = "done" /\ fh[h].served \in {CrossOrigin(FetchBody(h)), Null}

\* The step in which the fetch event of a request that is not a GET is handled.
NonGetHandled(h) == fh[h].pc = "idle" /\ fh'[h].pc # "idle" /\ fh'[h].method # "GET"

\* C4 (pass-through for non-GET): for a request whose method is not GET the
\* handler returns without supplying a response, looks nothing up, starts no
\* network fetch and no cache write, and leaves every cache store unchanged.
C4_NonGetPassThrough ==
    /\ [](\A h \in Handlings :
            fh[h].pc # "idle" /\ fh[h].method # "GET" =>
                /\ fh[h].pc = "done"
                /\ fh[h].outcome = "unhandled"
                /\ ~fh[h].looked /\ ~fh[h].net
                /\ fh[h].bg = "none" /\ fh[h].resp = NoEntry)
    /\ [][\A h \in Handlings :
            NonGetHandled(h) \/ (fh[h].pc # "idle" /\ fh[h].method # "GET") =>
                /\ ~PutStep(h)
                /\ (fh'[h] # fh[h] => UNCHANGED <<cacheNames, entries>>)]_vars

\* A POST for a URL that is cached has been passed through.
C4_Witness ==
    \E h \in Handlings :
        /\ fh[h].method = "POST" /\ fh[h].pc = "done"
        /\ fh[h].outcome = "unhandled"
        /\ CachedSomewhere(fh[h].url)


\* The step in which an operation of the install chain of version v fails.
InstallFails(v) == ~inst[v].err /\ inst'[v].err

\* C5 (install failure is fatal to the install attempt only): when opening
\* the store, fetching or storing a manifest entry fails, the promise given
\* to waitUntil rejects after the error is logged, skipWaiting is never
\* called for this worker, the worker is discarded and never activated, and
\* the failing step leaves every other worker, the active one included, in
\* the state it was in.
C5_InstallFailure ==
    /\ [](\A v \in Versions :
            inst[v].err =>
                /\ inst[v].pc = "rejected"
                /\ <<"error", v>> \in log
                /\ ~inst[v].skip
                /\ wstate[v] = "redundant"
                /\ act[v].pc = "idle")
    /\ [][\A v \in Versions :
            InstallFails(v) =>
                \A u \in Versions \ {v} : wstate'[u] = wstate[u]]_vars

\* The install of version 2 failed while version 1 is active and has served
\* a request.
C5_Witness ==
    /\ inst[2].err /\ inst[2].pc = "rejected"
    /\ wstate[1] = "activated"
    /\ \E h \in Handlings : fh[h].w = 1 /\ fh[h].outcome = "resolved"

\* The step in which the install chain of version v resolves.
InstallSucceeds(v) == inst[v].pc = "put" /\ inst'[v].pc = "resolved"

\* C6 (pre-cache completeness): when the install handler of version V
\* completes successfully, the store named V exists and holds, for every path
\* of the manifest, the response the network served for it.
C6_PrecacheComplete ==
    [][\A v \in Versions :
          InstallSucceeds(v) =>
              /\ CACHE_NAME(v) \in Range(cacheNames')
              /\ \A u \in ASSETS_TO_CACHE :
                    entries'[CACHE_NAME(v)][u] = inst[v].net[u]]_vars


\* C7 (graceful degradation): on a GET cache miss whose network fetch fails,
\* the promise given to respondWith resolves, with no response, instead of
\* rejecting; a warning is logged; the handling starts no cache write and no
\* store ever holds an entry written by it.
C7_GracefulDegradation ==
    \A h \in Handlings :
        fh[h].neterr =>
            /\ fh[h].pc = "done"
            /\ fh[h].outcome = "resolved"
            /\ fh[h].resp = Undefined
            /\ <<"warn", h>> \in log
            /\ fh[h].bg = "none"
            /\ ~HoldsEntryOf(h)

\* A GET missed the cache and its network fetch failed.
C7_Witness ==
    \E h \in Handlings :
        /\ fh[h].neterr /\ fh[h].looked /\ fh[h].net
        /\ fh[h].outcome = "resolved" /\ fh[h].resp = Undefined

\* The network answered handling h with a response the handler caches.
MissCacheable(f) == f.served # NoEntry /\ ~NotCacheable(f.served)

\* C8 (fire-and-forget cache write): on a GET cache miss answered with a
\* status-200 "basic" response, the promise given to respondWith is resolved
\* with that response in every state from the arrival of the response on:
\* while the cache write is only requested or under way, when it has
\* completed and when it has failed.
C8_FireAndForget ==
    \A h \in Handlings :
        MissCacheable(fh[h]) =>
            /\ fh[h].pc = "done"
            /\ fh[h].outcome = "resolved"
            /\ fh[h].resp = fh[h].served
            /\ fh[h].bg \in {"open", "put", "written", "failed"}

\* One handling has delivered its response while its cache write is still
\* pending, another although its cache write failed.
C8_Witness ==
    /\ \E h \in Handlings :
          /\ MissCacheable(fh[h]) /\ fh[h].outcome = "resolved"
          /\ fh[h].bg \in {"open", "put"}
    /\ \E h \in Handlings :
          /\ MissCacheable(fh[h]) /\ fh[h].outcome = "resolved"
          /\ fh[h].bg = "failed"


\* The step in which the detached caches.open of handling h resolves.
OpenStep(h) == fh[h].bg = "open" /\ fh'[h].bg = "put"
\* Store n is the same before and after the step.
StoreUnchanged(n) ==
    /\ entries'[n] = entries[n]
    /\ (n \in Range(cacheNames')) = (n \in Range(cacheNames))
\* The caller of a cacheable miss receives the network response.
CallerGetsNetworkResponse ==
    \A h \in Handlings :
        MissCacheable(fh[h]) => fh[h].outcome = "resolved" /\ fh[h].resp = fh[h].served
\* A requested cache write is eventually settled.
WriteSettles ==
    \A h \in Handlings : (fh[h].bg = "open") ~> (fh[h].bg \in {"written", "failed"})

C10_LookupOwnStore ==
    [][\A h \in Handlings :
          LookupResolves(h) /\ fh'[h].src = "cache" =>
              /\ CACHE_NAME(fh[h].w) \in Range(cacheNames)
              /\ entries[CACHE_NAME(fh[h].w)][fh[h].url] # NoEntry]_vars


\* The work the handlers started that has not settled yet.
InstallWorkPending(v) == inst[v].pc \in {"open", "fetch", "put"}
ActivateWorkPending(v) == act[v].pc = "keys" \/ act[v].pending # {}
FetchWorkPending(h) == fh[h].pc \in {"match", "fetch"} \/ fh[h].bg \in {"open", "put"}
\* The promise the handler gave to waitUntil / respondWith has settled, which
\* ends the lifetime extension of the event.
InstallExtensionEnded(v) == inst[v].pc \in {"resolved", "rejected"}
ActivateExtensionEnded(v) == act[v].pc \in {"resolved", "rejected"}
FetchExtensionEnded(h) == fh[h].pc = "done"

\* C11 (lifetime extension): in no reachable state has the lifetime extension
\* of an install, activate or fetch handler ended while a cache open, network
\* fetch, cache put or cache delete that the handler started is still pending.
C11_LifetimeCoversWork ==
    /\ \A v \in Versions : InstallExtensionEnded(v) => ~InstallWorkPending(v)
    /\ \A v \in Versions : ActivateExtensionEnded(v) => ~ActivateWorkPending(v)
    /\ \A h \in Handlings : FetchExtensionEnded(h) => ~FetchWorkPending(h)


\* The worker of version v has called skipWaiting() and has not been replaced.
SignalledSkipWaiting(v) ==
    inst[v].skip /\ wstate[v] \in {"installed", "activating", "activated"}
\* The store named by version v exists and holds every manifest entry.
PrecacheHeld(v) ==
    /\ Exists(CACHE_NAME(v))
    /\ \A u \in ASSETS_TO_CACHE : entries[CACHE_NAME(v)][u] # NoEntry

\* C12 (skipWaiting after caching): in every reachable state in which a
\* worker has signalled skip-waiting (and is waiting, activating or active),
\* the store named by its version exists and contains every manifest entry.
C12_SkipWaitingAfterPrecache ==
    \A v \in Versions : SignalledSkipWaiting(v) => PrecacheHeld(v)


\* C13 (claim after cleanup): whenever the activate handler of a version has
\* called clients.claim(), the enumeration and the deletions it requested
\* have all resolved: none is pending and none was rejected (a rejection
\* leaves the chain rejected for good), so the claim neither precedes nor
\* overlaps a deletion.
C13_ClaimAfterCleanup ==
    \A v \in Versions :
        act[v].claimed =>
            /\ act[v].pc = "resolved"
            /\ act[v].pending = {}
            /\ ~ActivateWorkPending(v)

\* Version 2 has claimed the clients after deleting the store of version 1.
C13_Witness ==
    /\ act[2].claimed /\ act[2].requested = {CACHE_NAME(1)}
    /\ act[2].pending = {} /\ ~Exists(CACHE_NAME(1))
    /\ wstate[2] = "activated"


\* C14 (best-effort cleanup): a failed deletion of a stale store is treated
\* like a successful one, so when the promise the activate handler gave to
\* waitUntil has settled, it has resolved and clients.claim() has been called.
C14_BestEffortCleanup ==
    \A v \in Versions :
        ActivateExtensionEnded(v) => act[v].pc = "resolved" /\ act[v].claimed


\* The step in which caches.keys() of the activate handler of version v resolves.
KeysResolves(v) == act[v].pc = "keys" /\ act'[v].pc # "keys"
\* A step of the activate handler of version v.
ActivateStep(v) == act'[v] # act[v]

\* C15 (only stale stores are deleted): the activate handler of version V
\* requests the deletion of exactly the enumerated stores whose name is not
\* V's CACHE_NAME, each announced in the log; it never requests the deletion
\* of the store named by CACHE_NAME, and none of its steps changes that
\* store's existence or entries.
C15_DeletesOnlyStale ==
    /\ [](\A v \in Versions : CACHE_NAME(v) \notin act[v].requested \cup act[v].pending)
    /\ [][\A v \in Versions :
            /\ KeysResolves(v) =>
                  /\ act'[v].requested = Range(cacheNames) \ {CACHE_NAME(v)}
                  /\ \A n \in Versions :
                        (<<"log", v, n>> \in log') =
                            (<<"log", v, n>> \in log \/ n \in act'[v].requested)
            /\ ActivateStep(v) =>
                  /\ act'[v].requested \subseteq act[v].requested \cup Range(cacheNames)
                  /\ StoreUnchanged(CACHE_NAME(v))]_vars

\* Version 2 has deleted store 1 and kept its own store with the pre-cache.
C15_Witness ==
    /\ act[2].pc = "resolved" /\ act[2].requested = {CACHE_NAME(1)}
    /\ cacheNames = <<CACHE_NAME(2)>>
    /\ \A u \in ASSETS_TO_CACHE : entries[CACHE_NAME(2)][u] = Ok(InstallBody(2))


\* C16 (one store after activation under concurrent fetch handling): once
\* the activate handler of version V_new has completed, no store of an older
\* version exists: a cache write that a worker of an older version started
\* from its fetch handler does not bring the deleted store back.
C16_NoStaleStoreRecreated ==
    \A v \in Versions :
        act[v].pc = "resolved" =>
            \A n \in Range(cacheNames) : \A o \in Versions : n = CACHE_NAME(o) => o >= v


\* Handling g missed the cache, got a cacheable response and wrote it to the
\* store of its worker's version, and that store has not been deleted since.
WrittenAndKept(g) ==
    /\ MissCacheable(fh[g])
    /\ fh[g].bg = "written"
    /\ ~fh[g].orph

\* C17 (miss then hit): once a GET cache miss has written its status-200
\* same-origin response to the store, and no activation of another version
\* has deleted that store since, the store holds an entry for the request,
\* and every lookup that resolves from then on for the same request in a
\* worker of the same version is answered from the cache, with a cached
\* status-200 response and without a network request.
C17_MissThenHit ==
    /\ [](\A g \in Handlings :
            WrittenAndKept(g) =>
                /\ Exists(CACHE_NAME(fh[g].w))
                /\ entries[CACHE_NAME(fh[g].w)][fh[g].url] # NoEntry)
    /\ [][\A g \in Handlings, h \in Handlings :
            /\ WrittenAndKept(g)
            /\ LookupResolves(h)
            /\ fh[h].w = fh[g].w /\ fh[h].url = fh[g].url
            => /\ fh'[h].pc = "done" /\ fh'[h].outcome = "resolved"
               /\ fh'[h].src = "cache"
               /\ ShouldCache(fh'[h].resp)
               /\ ~fh'[h].net]_vars

\* A later GET has been answered from the cache with the very response an
\* earlier miss for the same URL fetched and wrote.
C17_Witness ==
    \E g \in Handlings, h \in Handlings :
        /\ g # h /\ WrittenAndKept(g)
        /\ fh[h].w = fh[g].w /\ fh[h].url = fh[g].url
        /\ fh[h].src = "cache" /\ ~fh[h].net
        /\ fh[h].resp = fh[g].served


\* A step of the install handler of version v (its promise chain moves on).
InstallStep(v) == inst'[v].pc # inst[v].pc

\* C18 (install touches only its own store): no step of the install handler
\* of version V, be it caches.open, the fetches and the storing of addAll,
\* skipWaiting or the catch handler, creates, deletes or changes a store
\* named otherwise; a failing install leaves all stores as they were.
C18_InstallOwnStoreOnly ==
    [][\A v \in Versions :
          /\ InstallStep(v) =>
                \A n \in Versions \ {CACHE_NAME(v)} : StoreUnchanged(n)
          /\ InstallFails(v) =>
                \A n \in Versions : entries'[n] = entries[n]]_vars

\* The install of version 2 has succeeded while the store of the active
\* version 1 holds its own pre-cache and an entry added by a fetch handling.
C18_Witness ==
    /\ inst[2].pc = "resolved"
    /\ \A u \in ASSETS_TO_CACHE : entries[CACHE_NAME(2)][u] = Ok(InstallBody(2))
    /\ wstate[1] = "activated"
    /\ Exists(CACHE_NAME(1))
    /\ \A u \in ASSETS_TO_CACHE : entries[CACHE_NAME(1)][u] = Ok(InstallBody(1))
    /\ entries[CACHE_NAME(1)][OtherUrl] # NoEntry


\* Handlings g and h both missed the cache for the same request in workers of
\* the same version and both got a response to cache: neither saw the
\* other's entry, their handling overlapped.
BothMissed(g, h) ==
    /\ g # h
    /\ MissCacheable(fh[g]) /\ MissCacheable(fh[h])
    /\ fh[g].w = fh[h].w /\ fh[g].url = fh[h].url
\* The step in which the cache write of h completes, that of g having completed.
SecondWriteCompletes(g, h) == BothMissed(g, h) /\ fh[g].bg = "written" /\ PutStep(h)
\* Each of the two callers has received the response fetched for it.
EachGetsOwnResponse(g, h) ==
    /\ fh[g].resp = fh[g].served /\ fh[g].resp.body = FetchBody(g)
    /\ fh[h].resp = fh[h].served /\ fh[h].resp.body = FetchBody(h)
    /\ fh[g].resp # fh[h].resp
\* After the step the store of the version holds, for the request, one of
\* the two network responses.
HoldsOneOfTheTwo(g, h) ==
    /\ CACHE_NAME(fh[h].w) \in Range(cacheNames')
    /\ entries'[CACHE_NAME(fh[h].w)][fh[h].url] \in {fh[g].served, fh[h].served}

====
